---- MODULE Spec2Model ----
(***************************************************************************)
(* Model of download_video.py: the URL classifier, the video reference     *)
(* extractor and the orchestrator's fallback chain.                        *)
(*                                                                         *)
(* Strings are TLA+ strings; TLC evaluates Len, SubSeq, Head, Tail and \o  *)
(* on them, so substring tests, lowercasing, the regular expressions and   *)
(* URL resolution are computed character by character.                     *)
(*                                                                         *)
(* The two download strategies are modelled by their boolean contract      *)
(* (subprocess exit status / caught exception); fetch_page either returns  *)
(* a document or raises.  ensure_dependencies and the console output other *)
(* than print_manual_instructions do not affect the control flow and are   *)
(* left out.                                                               *)
(***************************************************************************)
EXTENDS Integers, Sequences, FiniteSets, TLC

VARIABLES
    argv,         \* sys.argv[1:], the optional URL argument
    hashSeed,     \* the interpreter's string-hash seed (fixed per process)
    pc,           \* position in the program
    url,          \* download_video's url parameter
    html,         \* the fetched page (parse tree; its text is Raw(html))
    video_urls,   \* the candidate list returned by extract_video_urls
    idx,          \* position of the candidate loop in video_urls
    calls,        \* the calls made so far, in order, with their outcome
    ret,          \* value returned by download_video / is_direct_video_url
    exit_status,  \* status passed to sys.exit
    prev_urls,    \* list returned by the previous call of extract_video_urls
    ncalls        \* number of calls of extract_video_urls made

vars == <<argv, hashSeed, pc, url, html, video_urls, idx, calls, ret,
          exit_status, prev_urls, ncalls>>

(***************************************************************************)
(* Bounds                                                                  *)
(***************************************************************************)
MaxHashSeed == 1     \* hash seeds 0..MaxHashSeed
MaxNodes == 2        \* nodes per generated page
MaxCalls == 2        \* calls of extract_video_urls in the extractor runs

(***************************************************************************)
(* String primitives (str methods and operators used by the program)       *)
(***************************************************************************)
UPPERCASE == "ABCDEFGHIJKLMNOPQRSTUVWXYZ"
LOWERCASE == "abcdefghijklmnopqrstuvwxyz"
DIGITS == "0123456789"

Chr(s, i) == SubSeq(s, i, i)

\* the characters of s
Chars(s) == {Chr(s, i) : i \in 1..Len(s)}

LowerMap == [c \in Chars(UPPERCASE) |->
                Chr(LOWERCASE, CHOOSE i \in 1..26 : Chr(UPPERCASE, i) = c)]

UpperMap == [c \in Chars(LOWERCASE) |->
                Chr(UPPERCASE, CHOOSE i \in 1..26 : Chr(LOWERCASE, i) = c)]

LowerChar(c) == IF c \in DOMAIN LowerMap THEN LowerMap[c] ELSE c

UpperChar(c) == IF c \in DOMAIN UpperMap THEN UpperMap[c] ELSE c

RECURSIVE Lower(_)
\* str.lower(), character by character (the string is split in halves)
Lower(s) ==
    IF Len(s) = 0 THEN ""
    ELSE IF Len(s) = 1 THEN LowerChar(s)
    ELSE Lower(SubSeq(s, 1, Len(s) \div 2)) \o Lower(SubSeq(s, Len(s) \div 2 + 1, Len(s)))

RECURSIVE Upper(_)
\* str.upper(), used to build inputs
Upper(s) ==
    IF Len(s) = 0 THEN ""
    ELSE IF Len(s) = 1 THEN UpperChar(s)
    ELSE Upper(SubSeq(s, 1, Len(s) \div 2)) \o Upper(SubSeq(s, Len(s) \div 2 + 1, Len(s)))

Min(S) == CHOOSE x \in S : \A y \in S : x <= y
Max(S) == CHOOSE x \in S : \A y \in S : y <= x

\* s[i:i+len(sub)] == sub
StartsAt(s, i, sub) ==
    /\ i >= 1
    /\ i + Len(sub) - 1 <= Len(s)
    /\ SubSeq(s, i, i + Len(sub) - 1) = sub

\* sub in s
Contains(s, sub) ==
    \E i \in 1..(Len(s) - Len(sub) + 1) : SubSeq(s, i, i + Len(sub) - 1) = sub

RECURSIVE Replace(_, _, _)
\* str.replace(old, new): leftmost non-overlapping occurrences
Replace(s, old, new) ==
    LET ps == {i \in 1..Len(s) : StartsAt(s, i, old)}
    IN  IF ps = {} THEN s
        ELSE SubSeq(s, 1, Min(ps) - 1) \o new
             \o Replace(SubSeq(s, Min(ps) + Len(old), Len(s)), old, new)

Range(f) == {f[i] : i \in DOMAIN f}

(***************************************************************************)
(* is_direct_video_url                                                     *)
(***************************************************************************)
video_extensions == <<".mp4", ".webm", ".m3u8", ".mov", ".avi", ".mkv", ".flv">>

video_services ==
    <<"wistia.com", "wistia.net", "vimeo.com", "youtube.com", "youtu.be",
      "vidyard.com", "brightcove", "jwplatform", "loom.com", "sproutvideo">>

is_direct_video_url_CaseSensitive(u) ==
    \/ \E i \in DOMAIN video_extensions : Contains(u, video_extensions[i])
    \/ \E i \in DOMAIN video_services : Contains(u, video_services[i])

is_direct_video_url(u) ==
    LET url_lower == Lower(u) IN
    IF \E i \in DOMAIN video_extensions : Contains(url_lower, video_extensions[i])
    THEN TRUE
    ELSE IF \E i \in DOMAIN video_services : Contains(url_lower, video_services[i])
         THEN TRUE
         ELSE FALSE

(***************************************************************************)
(* re.findall for the patterns of extract_video_urls                       *)
(***************************************************************************)
ALNUM == Chars(LOWERCASE \o UPPERCASE \o DIGITS)     \* [a-zA-Z0-9]
DIGIT == Chars(DIGITS)                               \* \d
YTCHARS == ALNUM \cup {"_", "-"}                     \* [a-zA-Z0-9_-]
URLSTOP == Chars(" \t\n\r\f\"'<>")                   \* [\s"'<>]

\* last position of the maximal run, from position s on, of characters that
\* are in cls (neg = FALSE) or not in cls (neg = TRUE); s - 1 when empty
RunEnd(text, s, cls, neg) ==
    LET stops == {k \in s..Len(text) : (Chr(text, k) \in cls) = neg}
    IN  IF stops = {} THEN Len(text) ELSE Min(stops) - 1

\* A pattern  (?:prefix_1|...|prefix_n)([cls]+)suffix : the literal prefixes
\* are the expansions of the pattern's alternations and optional blanks.
Pattern(prefixes, cls, suffix) ==
    [prefixes |-> prefixes, cls |-> cls, suffix |-> suffix,
     first |-> {Chr(prefixes[k], 1) : k \in DOMAIN prefixes}]

NoMatch == [ok |-> FALSE, cap |-> "", end |-> 0]

\* the match of pattern p that starts at position i of text, if any
MatchAt(p, text, i) ==
    LET ks == IF Chr(text, i) \notin p.first THEN {}
              ELSE {k \in DOMAIN p.prefixes : StartsAt(text, i, p.prefixes[k])}
    IN  IF ks = {} THEN NoMatch
        ELSE LET k == CHOOSE k \in ks : TRUE
                 s == i + Len(p.prefixes[k])
                 e == RunEnd(text, s, p.cls, FALSE)
             IN  IF e < s THEN NoMatch
                 ELSE IF p.suffix # "" /\ ~StartsAt(text, e + 1, p.suffix)
                      THEN NoMatch
                      ELSE [ok |-> TRUE, cap |-> SubSeq(text, s, e),
                            end |-> e + Len(p.suffix)]

RECURSIVE FindFrom(_, _, _)
\* the matches from position i on: leftmost first, then after its end
FindFrom(p, text, i) ==
    LET ms == {k \in i..Len(text) : MatchAt(p, text, k).ok}
    IN  IF ms = {} THEN <<>>
        ELSE LET m == MatchAt(p, text, Min(ms))
             IN  <<m.cap>> \o FindFrom(p, text, m.end + 1)

\* re.findall(pattern, text): the captured groups, left to right
FindAll(p, text) == FindFrom(p, text, 1)

\* text[i:i+len(lit)].lower() == lit   (re.IGNORECASE on a literal)
CIStartsAt(text, i, lit) ==
    /\ i + Len(lit) - 1 <= Len(text)
    /\ Lower(SubSeq(text, i, i + Len(lit) - 1)) = lit

file_extensions == <<".mp4", ".m3u8", ".webm">>      \* \.(?:mp4|m3u8|webm)

\* (https?://[^\s"'<>]+\.(?:mp4|m3u8|webm)(?:\?[^\s"'<>]*)?) at position i.
\* The body is greedy, so the extension matched is the last one of the run
\* of non-delimiters; a query, when one follows, takes the rest of the run.
FileMatchAt(text, i) ==
    LET b == IF LowerChar(Chr(text, i)) # "h" THEN 0
             ELSE IF CIStartsAt(text, i, "https://") THEN i + 8
             ELSE IF CIStartsAt(text, i, "http://") THEN i + 7
             ELSE 0
    IN  IF b = 0 THEN NoMatch
        ELSE LET r == RunEnd(text, b, URLSTOP, TRUE)
                 js == {j \in (b + 1)..r :
                           /\ Chr(text, j) = "."
                           /\ \E x \in DOMAIN file_extensions :
                                  CIStartsAt(text, j, file_extensions[x])}
             IN  IF js = {} THEN NoMatch
                 ELSE LET j == Max(js)
                          x == CHOOSE x \in DOMAIN file_extensions :
                                   CIStartsAt(text, j, file_extensions[x])
                          e0 == j + Len(file_extensions[x]) - 1
                          e == IF e0 < r /\ Chr(text, e0 + 1) = "?" THEN r ELSE e0
                      IN  [ok |-> TRUE, cap |-> SubSeq(text, i, e), end |-> e]

RECURSIVE FileFindFrom(_, _)
FileFindFrom(text, i) ==
    LET ms == {k \in i..Len(text) : FileMatchAt(text, k).ok}
    IN  IF ms = {} THEN <<>>
        ELSE LET m == FileMatchAt(text, Min(ms))
             IN  <<m.cap>> \o FileFindFrom(text, m.end + 1)

wistia_patterns ==
    << Pattern(<<"wistia_async_">>, ALNUM, ""),
       Pattern(<<"//fast.wistia.com/embed/iframe/", "//fast.wistia.com/embed/medias/",
                 "//fast.wistia.net/embed/iframe/", "//fast.wistia.net/embed/medias/">>,
               ALNUM, ""),
       Pattern(<<"\"hashedId\":\"", "\"hashedId\": \"",
                 "\"hashedId\" :\"", "\"hashedId\" : \"">>, ALNUM, "\"") >>

vimeo_patterns ==
    << Pattern(<<"player.vimeo.com/video/">>, DIGIT, ""),
       Pattern(<<"vimeo.com/">>, DIGIT, "") >>

youtube_patterns ==
    << Pattern(<<"youtube.com/embed/">>, YTCHARS, ""),
       Pattern(<<"youtube.com/watch?v=">>, YTCHARS, ""),
       Pattern(<<"youtu.be/">>, YTCHARS, "") >>

(***************************************************************************)
(* Iteration over set(...): the order follows the string hashes, which the *)
(* interpreter seeds per process.                                          *)
(***************************************************************************)
RECURSIVE Canon(_)
Canon(S) ==
    IF S = {} THEN <<>>
    ELSE LET x == CHOOSE x \in S : TRUE IN <<x>> \o Canon(S \ {x})

RemoveAt(q, p) == SubSeq(q, 1, p - 1) \o SubSeq(q, p + 1, Len(q))

RECURSIVE Permute(_, _)
\* the k-th arrangement of q (factorial number system)
Permute(q, k) ==
    IF q = <<>> THEN <<>>
    ELSE LET p == (k % Len(q)) + 1
         IN  <<q[p]>> \o Permute(RemoveAt(q, p), k \div Len(q))

\* for x in set(matches): the elements of S in the order of this process
SetIter(S, seed) == Permute(Canon(S), seed)

(***************************************************************************)
(* urllib.parse.urljoin, for an absolute http(s) base without fragment and *)
(* a reference that is absolute (lowercase scheme), "//host/..", "/path",  *)
(* "?query", "#fragment" or a relative path without dot segments.          *)
(***************************************************************************)
\* first position >= i of text holding a character of cls, Len(text)+1 if none
FirstOf(text, i, cls) == RunEnd(text, i, cls, TRUE) + 1

\* position after the last "/" of text at or after position i (i if none)
AfterLastSlash(text, i) ==
    LET ps == {k \in i..Len(text) : Chr(text, k) = "/"}
    IN  IF ps = {} THEN i ELSE Max(ps) + 1

urljoin(base, ref) ==
    LET colon == FirstOf(base, 1, {":"})              \* scheme ":" "//" authority
        scheme == SubSeq(base, 1, colon - 1)
        pathStart == FirstOf(base, colon + 3, {"/", "?", "#"})
        authority == SubSeq(base, 1, pathStart - 1)
        queryStart == FirstOf(base, pathStart, {"?", "#"})
        noQuery == SubSeq(base, 1, queryStart - 1)
        fragStart == FirstOf(base, pathStart, {"#"})
        noFrag == SubSeq(base, 1, fragStart - 1)
    IN  IF ref = "" THEN base
        ELSE IF StartsAt(ref, 1, "http://") \/ StartsAt(ref, 1, "https://") THEN ref
        ELSE IF StartsAt(ref, 1, "//") THEN scheme \o ":" \o ref
        ELSE IF StartsAt(ref, 1, "/") THEN authority \o ref
        ELSE IF StartsAt(ref, 1, "?") THEN noQuery \o ref
        ELSE IF StartsAt(ref, 1, "#") THEN noFrag \o (IF Len(ref) > 1 THEN ref ELSE "")
        ELSE IF pathStart > Len(noQuery) THEN authority \o "/" \o ref
        ELSE SubSeq(noQuery, 1, AfterLastSlash(noQuery, pathStart) - 1) \o ref

(***************************************************************************)
(* Pages.  BeautifulSoup(html, "html.parser") is modelled by its result:   *)
(* a page is the sequence of its nodes in document order, and the raw text *)
(* the regular expressions scan is the rendering of those nodes.  An       *)
(* attribute that is absent is the empty string (both are falsy).          *)
(***************************************************************************)
VideoNode(src, sources) ==
    [tag |-> "video", src |-> src, data_src |-> "", sources |-> sources, text |-> ""]

IframeNode(src, data_src) ==
    [tag |-> "iframe", src |-> src, data_src |-> data_src, sources |-> <<>>, text |-> ""]

ScriptNode(text) ==
    [tag |-> "script", src |-> "", data_src |-> "", sources |-> <<>>, text |-> text]

Attr(name, value) == IF value = "" THEN "" ELSE " " \o name \o "=\"" \o value \o "\""

RECURSIVE RenderSources(_)
RenderSources(srcs) ==
    IF srcs = <<>> THEN ""
    ELSE "<source" \o Attr("src", Head(srcs)) \o ">" \o RenderSources(Tail(srcs))

RenderNode(n) ==
    IF n.tag = "video"
    THEN "<video" \o Attr("src", n.src) \o ">" \o RenderSources(n.sources) \o "</video>"
    ELSE IF n.tag = "iframe"
    THEN "<iframe" \o Attr("src", n.src) \o Attr("data-src", n.data_src) \o "></iframe>"
    ELSE "<script>" \o n.text \o "</script>"

RECURSIVE Raw(_)
\* the text of the page
Raw(h) == IF h = <<>> THEN "" ELSE RenderNode(Head(h)) \o Raw(Tail(h))

(***************************************************************************)
(* extract_video_urls                                                      *)
(***************************************************************************)
RECURSIVE ConcatAll(_)
ConcatAll(qs) == IF qs = <<>> THEN <<>> ELSE Head(qs) \o ConcatAll(Tail(qs))

\* Method 1: <video src> and the nested <source src>, per video element
VideoCandidates(h, base_url) ==
    ConcatAll([i \in 1..Len(h) |->
        IF h[i].tag # "video" THEN <<>>
        ELSE (IF h[i].src # ""
              THEN << <<"video_element", urljoin(base_url, h[i].src)>> >>
              ELSE <<>>)
             \o ConcatAll([j \in 1..Len(h[i].sources) |->
                    IF h[i].sources[j] # ""
                    THEN << <<"video_source", urljoin(base_url, h[i].sources[j])>> >>
                    ELSE <<>>])])

video_hosts == <<"vimeo", "youtube", "wistia", "vidyard", "brightcove", "loom">>

\* Method 2: <iframe src> or data-src naming a known host, unresolved
IframeCandidates(h) ==
    ConcatAll([i \in 1..Len(h) |->
        IF h[i].tag # "iframe" THEN <<>>
        ELSE LET src == IF h[i].src # "" THEN h[i].src ELSE h[i].data_src
             IN  IF src # "" /\ \E k \in DOMAIN video_hosts :
                                    Contains(Lower(src), video_hosts[k])
                 THEN << <<"iframe_embed", src>> >>
                 ELSE <<>>])

\* Methods 3-5: for pattern in patterns: for vid_id in set(re.findall(..))
PatternCandidates(patterns, text, source_type, url_prefix, seed) ==
    ConcatAll([k \in 1..Len(patterns) |->
        LET ids == SetIter(Range(FindAll(patterns[k], text)), seed)
        IN  [i \in 1..Len(ids) |-> <<source_type, url_prefix \o ids[i]>>]])

\* url.replace("\\u002F", "/").replace("\\/", "/")
Unescape(u) == Replace(Replace(u, "\\u002F", "/"), "\\/", "/")

\* Method 6: direct video file URLs
DirectFileCandidates(text, seed) ==
    LET found == SetIter(Range(FileFindFrom(text, 1)), seed)
    IN  [i \in 1..Len(found) |-> <<"direct_file", Unescape(found[i])>>]

\* video_urls before deduplication
Combined(h, base_url, seed) ==
    LET text == Raw(h)
    IN  VideoCandidates(h, base_url)
        \o IframeCandidates(h)
        \o PatternCandidates(wistia_patterns, text, "wistia",
                             "https://fast.wistia.net/embed/iframe/", seed)
        \o PatternCandidates(vimeo_patterns, text, "vimeo",
                             "https://player.vimeo.com/video/", seed)
        \o PatternCandidates(youtube_patterns, text, "youtube",
                             "https://www.youtube.com/watch?v=", seed)
        \o DirectFileCandidates(text, seed)

RECURSIVE DedupFrom_ByPair(_, _)
\* a deduplication keyed by the (source_type, url) pair
DedupFrom_ByPair(q, seen) ==
    IF q = <<>> THEN <<>>
    ELSE IF Head(q) \in seen THEN DedupFrom_ByPair(Tail(q), seen)
    ELSE <<Head(q)>> \o DedupFrom_ByPair(Tail(q), seen \cup {Head(q)})

RECURSIVE DedupFrom(_, _)
DedupFrom(q, seen) ==
    IF q = <<>> THEN <<>>
    ELSE IF Head(q)[2] \in seen THEN DedupFrom(Tail(q), seen)
    ELSE <<Head(q)>> \o DedupFrom(Tail(q), seen \cup {Head(q)[2]})

\* the loop without the "if url not in seen" test
Dedup_Keep(q) == q

\* Deduplicate: first occurrence of each URL, order preserved
Dedup(q) == DedupFrom(q, {})

extract_video_urls(h, base_url, seed) == Dedup(Combined(h, base_url, seed))

(***************************************************************************)
(* Inputs                                                                  *)
(***************************************************************************)
DEFAULT_URL ==
    "https://secure.brownstoneresearch.com/"
    \o "?cid=MKT859575"
    \o "&eid=MKT859927"
    \o "&encryptedSnaid=MWYxZGFhYjQyNGQxY2JhMRo9cEfps5Yycq6FQgdqk9o%3D"
    \o "&step=start"
    \o "&emailjobid=5668545"
    \o "&emailname=260128-Hotlist-BES-Biotech-Encore-9PM-Ded"
    \o "&assetId=AST387211"
    \o "&page=1"

\* command lines: a page URL, direct video URLs (by extension, in upper
\* case, by host, by an extension that is not a raw file); DEFAULT_URL, used
\* when no argument is given, is among the classifier's inputs below
Argvs ==
    { <<"https://site.test/dir/page?cid=1">>,
      <<"https://cdn.test/a.mp4">>,
      <<"https://CDN.TEST/CLIP.MOV">>,
      <<"https://vimeo.com/123">>,
      <<"https://cdn.test/live.m3u8">> }

HashSeeds == 0..MaxHashSeed

\* the nodes pages are made of: video elements with an absolute src, with
\* nested sources only, with a src that resolves to the page itself and a
\* relative source; iframes of a video host, with data-src only, and with a
\* src that names no video host; scripts with provider identifiers (two for
\* one pattern, one found by two patterns) and with file URLs (one of them
\* with an escaped slash)
NodePool ==
    { VideoNode("https://cdn.test/v.mp4", <<"https://cdn.test/v.webm">>),
      VideoNode("", <<"https://cdn.test/v.mp4">>),
      VideoNode("#", <<"a.mp4">>),
      IframeNode("https://player.vimeo.com/video/123", ""),
      IframeNode("", "//fast.wistia.net/embed/iframe/abc"),
      IframeNode("https://ads.test/frame", "https://player.vimeo.com/video/45"),
      ScriptNode("wistia_async_abc wistia_async_xyz {\"hashedId\": \"abc\"} "
                 \o "https://youtu.be/XYZ_789 vimeo.com/123"),
      ScriptNode("https://cdn.test/v.mp4 https://cdn.test\\/v.mp4 "
                 \o "https://cdn.test/s.m3u8?t=1") }

\* the pages fetch_page may return
Docs == UNION {[1..n -> NodePool] : n \in 0..MaxNodes}

BaseUrls == {"https://site.test/page", "https://site.test/dir/page?cid=1"}

\* inputs of the classifier: a fragment, in lower or upper case, inside a URL
ClassifierFragments ==
    Range(video_extensions) \cup Range(video_services)
    \cup {"wistia", "vimeo", "youtube", "vidyard", "loom"}
    \cup {".mp3", ".mp", "page", "youtu.b", "bloomberg.com"}

ClassifierUrls ==
    {p \o f \o q : p \in {"", "https://h.test/"},
                   f \in ClassifierFragments \cup {Upper(g) : g \in ClassifierFragments},
                   q \in {"", "?t=1"}}
    \cup {DEFAULT_URL, "https://FOO.COM/clip.MP4", "https://example.com/page"}

(***************************************************************************)
(* download_video and __main__                                             *)
(***************************************************************************)
Call(fn, u, ok) == [fn |-> fn, url |-> u, ok |-> ok]

Manual(u) == Call("print_manual_instructions", u, TRUE)

Init ==
    /\ argv \in Argvs
    /\ hashSeed \in HashSeeds
    /\ pc = "main"
    /\ url = ""
    /\ html = <<>>
    /\ video_urls = <<>>
    /\ idx = 0
    /\ calls = <<>>
    /\ ret = FALSE
    /\ exit_status = -1
    /\ prev_urls = <<>>
    /\ ncalls = 0

\* target_url = sys.argv[1] if len(sys.argv) > 1 else DEFAULT_URL
Main ==
    /\ pc = "main"
    /\ url' = IF Len(argv) > 0 THEN argv[1] ELSE DEFAULT_URL
    /\ pc' = "download_video"
    /\ UNCHANGED <<argv, hashSeed, html, video_urls, idx, calls, ret,
                   exit_status, prev_urls, ncalls>>

\* return r, having made the calls of log
Return(log, r) ==
    /\ calls' = log
    /\ ret' = r
    /\ pc' = "returned"

Goto(log, label) ==
    /\ calls' = log
    /\ pc' = label
    /\ ret' = ret

DirectRawExt_NoMov(u) ==
    \E ext \in {".mp4", ".webm"} : Contains(Lower(u), ext)

\* any(ext in url.lower() for ext in [".mp4", ".webm", ".mov"])
DirectRawExt(u) ==
    \E ext \in {".mp4", ".webm", ".mov"} : Contains(Lower(u), ext)

CandidateRawExt_Always(u) == TRUE

\* ".mp4" in vid_url.lower() or ".webm" in vid_url.lower()
CandidateRawExt(u) ==
    Contains(Lower(u), ".mp4") \/ Contains(Lower(u), ".webm")

\* the direct video URL branch: the external downloader on the input URL
DirectYtDlp ==
    /\ pc = "download_video"
    /\ is_direct_video_url(url)
    /\ \E ok \in BOOLEAN :
         LET log == Append(calls, Call("download_with_yt_dlp", url, ok))
         IN  IF ok THEN Return(log, TRUE)
             ELSE IF DirectRawExt(url) THEN Goto(log, "direct_stream")
             ELSE Return(log, FALSE)
    /\ UNCHANGED <<argv, hashSeed, url, html, video_urls, idx, exit_status,
                   prev_urls, ncalls>>

\* the direct video URL branch: the streamed download of the input URL
DirectStream ==
    /\ pc = "direct_stream"
    /\ \E ok \in BOOLEAN :
         Return(Append(calls, Call("download_direct", url, ok)), ok)
    /\ UNCHANGED <<argv, hashSeed, url, html, video_urls, idx, exit_status,
                   prev_urls, ncalls>>

\* [1/3] the external downloader on the page URL
PageYtDlp ==
    /\ pc = "download_video"
    /\ ~is_direct_video_url(url)
    /\ \E ok \in BOOLEAN :
         LET log == Append(calls, Call("download_with_yt_dlp", url, ok))
         IN  IF ok THEN Return(log, TRUE) ELSE Goto(log, "fetch")
    /\ UNCHANGED <<argv, hashSeed, url, html, video_urls, idx, exit_status,
                   prev_urls, ncalls>>

\* [2/3] fetch_page returns the page
FetchPageOk ==
    /\ pc = "fetch"
    /\ \E h \in Docs : html' = h
    /\ Goto(Append(calls, Call("fetch_page", url, TRUE)), "extract")
    /\ UNCHANGED <<argv, hashSeed, url, video_urls, idx, exit_status,
                   prev_urls, ncalls>>

\* a fetch failure that is swallowed: the run goes on with an empty page
FetchPageRaises_GoOn ==
    /\ pc = "fetch"
    /\ Goto(Append(calls, Call("fetch_page", url, FALSE)), "extract")
    /\ UNCHANGED <<argv, hashSeed, url, html, video_urls, idx, exit_status,
                   prev_urls, ncalls>>

\* [2/3] fetch_page raises: manual instructions, return False
FetchPageRaises ==
    /\ pc = "fetch"
    /\ Return(Append(calls, Call("fetch_page", url, FALSE)) \o <<Manual(url)>>, FALSE)
    /\ UNCHANGED <<argv, hashSeed, url, html, video_urls, idx, exit_status,
                   prev_urls, ncalls>>

GiveUp_Silent(log) == Return(log, FALSE)

\* all methods failed: print_manual_instructions(url); return False
GiveUp(log) == Return(Append(log, Manual(url)), FALSE)

\* [3/3] extract the candidates
Extract ==
    /\ pc = "extract"
    /\ video_urls' = extract_video_urls(html, url, hashSeed)
    /\ Goto(Append(calls, Call("extract_video_urls", url, TRUE)), "candidates")
    /\ idx' = idx
    /\ UNCHANGED <<argv, hashSeed, url, html, exit_status, prev_urls, ncalls>>

\* if video_urls: enter the loop; an empty list falls through to the end
Candidates ==
    /\ pc = "candidates"
    /\ IF video_urls # <<>>
       THEN Goto(calls, "cand_yt_dlp") /\ idx' = 1
       ELSE GiveUp(calls) /\ idx' = idx
    /\ UNCHANGED <<argv, hashSeed, url, html, video_urls, exit_status,
                   prev_urls, ncalls>>

\* the for loop moves to the next candidate, or ends
NextCandidate(log) ==
    IF idx < Len(video_urls)
    THEN Goto(log, "cand_yt_dlp") /\ idx' = idx + 1
    ELSE GiveUp(log) /\ idx' = idx

\* a loop body that does not return on success
CandYtDlp_NoReturn ==
    /\ pc = "cand_yt_dlp"
    /\ \E ok \in BOOLEAN :
         LET vid_url == video_urls[idx][2]
             log == Append(calls, Call("download_with_yt_dlp", vid_url, ok))
         IN  IF ~ok /\ CandidateRawExt(vid_url)
             THEN Goto(log, "cand_direct") /\ idx' = idx
             ELSE IF idx < Len(video_urls)
                  THEN Goto(log, "cand_yt_dlp") /\ idx' = idx + 1
                  ELSE Return(log, ok) /\ idx' = idx
    /\ UNCHANGED <<argv, hashSeed, url, html, video_urls, exit_status,
                   prev_urls, ncalls>>

\* the loop body: the external downloader on the candidate
CandYtDlp ==
    /\ pc = "cand_yt_dlp"
    /\ \E ok \in BOOLEAN :
         LET vid_url == video_urls[idx][2]
             log == Append(calls, Call("download_with_yt_dlp", vid_url, ok))
         IN  IF ok THEN Return(log, TRUE) /\ idx' = idx
             ELSE IF CandidateRawExt(vid_url)
                  THEN Goto(log, "cand_direct") /\ idx' = idx
                  ELSE NextCandidate(log)
    /\ UNCHANGED <<argv, hashSeed, url, html, video_urls, exit_status,
                   prev_urls, ncalls>>

\* the loop body: the streamed download of the candidate
CandDirect ==
    /\ pc = "cand_direct"
    /\ \E ok \in BOOLEAN :
         LET vid_url == video_urls[idx][2]
             log == Append(calls, Call("download_direct", vid_url, ok))
         IN  IF ok THEN Return(log, TRUE) /\ idx' = idx
             ELSE NextCandidate(log)
    /\ UNCHANGED <<argv, hashSeed, url, html, video_urls, exit_status,
                   prev_urls, ncalls>>

ExitCode_Bool(success) == IF success THEN 1 ELSE 0

\* 0 if success else 1
ExitCode(success) == IF success THEN 0 ELSE 1

\* sys.exit(0 if success else 1)
Exit ==
    /\ pc = "returned"
    /\ exit_status' = ExitCode(ret)
    /\ pc' = "exited"
    /\ UNCHANGED <<argv, hashSeed, url, html, video_urls, idx, calls, ret,
                   prev_urls, ncalls>>

Next ==
    \/ Main
    \/ DirectYtDlp
    \/ DirectStream
    \/ PageYtDlp
    \/ FetchPageOk
    \/ FetchPageRaises
    \/ Extract
    \/ Candidates
    \/ CandYtDlp
    \/ CandDirect
    \/ Exit

Spec == Init /\ [][Next]_vars

(***************************************************************************)
(* The extractor alone: calls of extract_video_urls on one page, in one    *)
(* interpreter process or in several (each process has its own hash seed). *)
(***************************************************************************)
InitExtract ==
    /\ argv = <<>>
    /\ hashSeed \in HashSeeds
    /\ pc = "extractor"
    /\ url \in BaseUrls
    /\ html \in Docs
    /\ video_urls = <<>>
    /\ idx = 0
    /\ calls = <<>>
    /\ ret = FALSE
    /\ exit_status = -1
    /\ prev_urls = <<>>
    /\ ncalls = 0

ExtractCall ==
    /\ pc = "extractor"
    /\ ncalls < MaxCalls
    /\ prev_urls' = video_urls
    /\ video_urls' = extract_video_urls(html, url, hashSeed)
    /\ ncalls' = ncalls + 1
    /\ UNCHANGED <<argv, hashSeed, pc, url, html, idx, calls, ret, exit_status>>

\* the next call is made by a new interpreter process
Restart ==
    /\ pc = "extractor"
    /\ ncalls < MaxCalls
    /\ \E seed \in HashSeeds \ {hashSeed} : hashSeed' = seed
    /\ UNCHANGED <<argv, pc, url, html, video_urls, idx, calls, ret,
                   exit_status, prev_urls, ncalls>>

NextExtract == ExtractCall \/ Restart

SpecExtract == InitExtract /\ [][NextExtract]_vars

(***************************************************************************)
(* The classifier alone                                                    *)
(***************************************************************************)
InitClassify ==
    /\ argv = <<>>
    /\ hashSeed = 0
    /\ pc = "classifier"
    /\ url \in ClassifierUrls
    /\ html = <<>>
    /\ video_urls = <<>>
    /\ idx = 0
    /\ calls = <<>>
    /\ ret = FALSE
    /\ exit_status = -1
    /\ prev_urls = <<>>
    /\ ncalls = 0

ClassifyCall ==
    /\ pc = "classifier"
    /\ ret' = is_direct_video_url(url)
    /\ pc' = "classified"
    /\ UNCHANGED <<argv, hashSeed, url, html, video_urls, idx, calls,
                   exit_status, prev_urls, ncalls>>

NextClassify == ClassifyCall

SpecClassify == InitClassify /\ [][NextClassify]_vars

(***************************************************************************)
(* Vocabulary of the properties                                            *)
(***************************************************************************)
Done == pc \in {"returned", "exited"}

IsStrategy(c) == c.fn \in {"download_with_yt_dlp", "download_direct"}

\* frag occurs in u, letter case of u ignored (frag is lowercase)
ContainsCI(u, frag) ==
    \E i \in 1..(Len(u) - Len(frag) + 1) :
        \A k \in 1..Len(frag) : LowerChar(Chr(u, i + k - 1)) = Chr(frag, k)

\* position of the call of extract_video_urls in calls, 0 before it
ExtractPos ==
    LET ps == {i \in DOMAIN calls : calls[i].fn = "extract_video_urls"}
    IN  IF ps = {} THEN 0 ELSE Min(ps)

\* the strategy invocations of the candidate loop, in order
CandCalls == SelectSeq(SubSeq(calls, ExtractPos + 1, Len(calls)), IsStrategy)

\* the URLs of the candidate list, in order
CandUrls == [j \in DOMAIN video_urls |-> video_urls[j][2]]

\* a strategy was invoked on URL u among the invocations cc
TriedIn(cc, u) == \E i \in DOMAIN cc : cc[i].url = u

\* a strategy invoked on URL u among the invocations cc returned success
SucceededIn(cc, u) == \E i \in DOMAIN cc : cc[i].url = u /\ cc[i].ok

SomeStrategySucceeded == \E i \in DOMAIN calls : IsStrategy(calls[i]) /\ calls[i].ok

ManualPrinted == \E i \in DOMAIN calls : calls[i].fn = "print_manual_instructions"

(***************************************************************************)
(* C1: after a successful fetch the candidates are attempted in list       *)
(* order; the candidates on which a strategy is invoked are exactly the    *)
(* prefix of the list up to and including the first one that succeeds (the *)
(* whole list when none does); when the first candidate succeeds no later  *)
(* one is attempted and the run ends in Success.                           *)
(***************************************************************************)
C1_CandidatesInOrder ==
    ExtractPos > 0 =>
        \A cc \in {CandCalls} : \A cu \in {CandUrls} :
            /\ \A i \in DOMAIN cc : \E j \in DOMAIN cu : cc[i].url = cu[j]
            /\ \A i \in 1..(Len(cc) - 1) :
                   \A j1, j2 \in DOMAIN cu :
                       cc[i].url = cu[j1] /\ cc[i + 1].url = cu[j2] => j1 <= j2
            /\ \A j \in DOMAIN cu :
                   TriedIn(cc, cu[j]) =>
                       \A j2 \in 1..(j - 1) :
                           TriedIn(cc, cu[j2]) /\ ~SucceededIn(cc, cu[j2])
            /\ \A j \in DOMAIN cu : SucceededIn(cc, cu[j]) => Done /\ ret
            /\ Done =>
                   \/ \E j \in DOMAIN cu : SucceededIn(cc, cu[j])
                   \/ ~ret /\ \A j \in DOMAIN cu : TriedIn(cc, cu[j])

C1_Witness ==
    /\ pc = "exited"
    /\ Len(video_urls) >= 2
    /\ CandCalls = <<Call("download_with_yt_dlp", video_urls[1][2], TRUE)>>
    /\ ret

(***************************************************************************)
(* C2: when fetch_page raises, the manual instructions are emitted, the    *)
(* run ends in Failure, and neither extraction nor any download strategy   *)
(* is invoked after the fetch failure.                                     *)
(***************************************************************************)
C2_FetchFailureTerminal ==
    \A i \in DOMAIN calls :
        calls[i].fn = "fetch_page" /\ ~calls[i].ok =>
            /\ Done
            /\ ~ret
            /\ Len(calls) = i + 1
            /\ calls[i + 1] = Manual(url)
            /\ \A k \in DOMAIN calls : calls[k].fn # "extract_video_urls"
            /\ \A k \in (i + 1)..Len(calls) : ~IsStrategy(calls[k])

C2_Witness ==
    /\ pc = "exited"
    /\ \E i \in DOMAIN calls : calls[i].fn = "fetch_page" /\ ~calls[i].ok
    /\ ManualPrinted
    /\ exit_status = 1

(***************************************************************************)
(* C3: the exit status is 0 if and only if the run ended in Success, that  *)
(* is, some strategy invocation of the run returned success; it is 1 for   *)
(* every run that ended in Failure; no run ends in Success without a       *)
(* successful strategy invocation.                                         *)
(***************************************************************************)
C3_ExitStatus ==
    /\ Done => (ret <=> SomeStrategySucceeded)
    /\ SomeStrategySucceeded => Done
    /\ pc = "exited" =>
           /\ exit_status \in {0, 1}
           /\ exit_status = 0 <=> SomeStrategySucceeded
           /\ exit_status = 1 <=> ~ret

C3_Witness ==
    /\ pc = "exited"
    /\ exit_status = 0
    /\ calls[Len(calls)].fn = "download_direct"
    /\ calls[Len(calls)].ok

(***************************************************************************)
(* C7: for a direct video URL the external downloader is attempted on it   *)
(* first; if that fails and the URL contains .mp4, .webm or .mov the       *)
(* direct streamed download is attempted; the run ends in Success iff one  *)
(* of the two attempts succeeded; the page is never fetched and nothing is *)
(* extracted.                                                              *)
(***************************************************************************)
C7_DirectBranch ==
    Done /\ is_direct_video_url(url) =>
        /\ Len(calls) >= 1
        /\ calls[1].fn = "download_with_yt_dlp" /\ calls[1].url = url
        /\ IF ~calls[1].ok /\ \E ext \in {".mp4", ".webm", ".mov"} : ContainsCI(url, ext)
           THEN Len(calls) = 2 /\ calls[2].fn = "download_direct" /\ calls[2].url = url
           ELSE Len(calls) = 1
        /\ ret <=> \E i \in DOMAIN calls : calls[i].ok
        /\ \A i \in DOMAIN calls : calls[i].fn \notin {"fetch_page", "extract_video_urls"}
        /\ html = <<>> /\ video_urls = <<>>

C7_Witness ==
    /\ pc = "exited"
    /\ ContainsCI(url, ".mp4")
    /\ Len(calls) = 2
    /\ calls[1] = Call("download_with_yt_dlp", url, FALSE)
    /\ calls[2] = Call("download_direct", url, TRUE)
    /\ ret /\ exit_status = 0

(***************************************************************************)
(* C8 (as stated): every run that ends in Failure emits the manual         *)
(* instructions before returning, on every failure path, with a non-zero   *)
(* exit code.                                                              *)
(***************************************************************************)
C8_ManualOnEveryFailure ==
    Done /\ ~ret =>
        /\ Len(calls) >= 1 /\ calls[Len(calls)] = Manual(url)
        /\ pc = "exited" => exit_status # 0

(***************************************************************************)
(* C8 (amended): every run that ends in Failure on the page path (fetch    *)
(* failure, empty candidate list, all candidates failing) emits the manual *)
(* instructions, once, as its last call before returning; a failure on the *)
(* direct video URL path emits none; both exit with a non-zero code.       *)
(***************************************************************************)
C8_ManualOnPagePathFailure ==
    /\ Done /\ ~ret =>
           /\ Len(calls) >= 1
           /\ calls[Len(calls)] = Manual(url) <=> ~is_direct_video_url(url)
           /\ pc = "exited" => exit_status # 0
    /\ \A i \in DOMAIN calls :
           calls[i].fn = "print_manual_instructions" => i = Len(calls) /\ Done /\ ~ret

C8_Witness ==
    /\ pc = "exited"
    /\ ~ret
    /\ Len(video_urls) >= 2
    /\ \A j \in DOMAIN video_urls : TriedIn(CandCalls, video_urls[j][2])
    /\ calls[Len(calls)] = Manual(url)
    /\ exit_status = 1

(***************************************************************************)
(* C9: download_direct is invoked on a URL only immediately after          *)
(* download_with_yt_dlp was invoked on that URL and failed, and only if    *)
(* the URL contains .mp4, .webm or .mov; the external downloader is the    *)
(* first strategy attempted for the input URL and for each candidate.      *)
(***************************************************************************)
C9_DirectOnlyAfterYtDlp ==
    /\ \A i \in DOMAIN calls :
           calls[i].fn = "download_direct" =>
               /\ i > 1
               /\ calls[i - 1] = Call("download_with_yt_dlp", calls[i].url, FALSE)
               /\ \E ext \in {".mp4", ".webm", ".mov"} : ContainsCI(calls[i].url, ext)
    /\ Len(calls) >= 1 => calls[1].fn = "download_with_yt_dlp" /\ calls[1].url = url
    /\ \A cc \in {CandCalls} :
           \A i \in DOMAIN cc :
               (i = 1 \/ cc[i - 1].url # cc[i].url) => cc[i].fn = "download_with_yt_dlp"

C9_Witness ==
    /\ Done
    /\ Len(CandCalls) >= 3
    /\ \E i \in DOMAIN CandCalls :
           /\ i > 1
           /\ CandCalls[i].fn = "download_direct"
           /\ CandCalls[i - 1].fn = "download_with_yt_dlp"
           /\ ~CandidateRawExt(CandCalls[1].url)

(***************************************************************************)
(* C10 (as stated): within one run no download strategy is invoked more    *)
(* than once on the same URL; the page URL tried in step 2 is never tried  *)
(* again as a candidate.                                                   *)
(***************************************************************************)
C10_NothingRetried ==
    \A i, j \in DOMAIN calls :
        i < j /\ IsStrategy(calls[i]) /\ IsStrategy(calls[j]) =>
            ~(calls[i].fn = calls[j].fn /\ calls[i].url = calls[j].url)

(***************************************************************************)
(* C10 (amended): within one run no download strategy is invoked more than *)
(* once on the same URL, except that the page URL, tried with the external *)
(* downloader in step 2, is tried with it once more when it is itself a    *)
(* candidate (a <video> src that resolves to the page URL).                *)
(***************************************************************************)
C10_NoRetryExceptPageUrl ==
    \A i, j \in DOMAIN calls :
        i < j /\ IsStrategy(calls[i]) /\ IsStrategy(calls[j])
              /\ calls[i].fn = calls[j].fn /\ calls[i].url = calls[j].url =>
            /\ i = 1
            /\ j > ExtractPos /\ ExtractPos > 0
            /\ calls[i] = Call("download_with_yt_dlp", url, FALSE)
            /\ \E k \in DOMAIN video_urls : video_urls[k][2] = url

C10_Witness ==
    /\ Done
    /\ Len(CandCalls) >= 3
    /\ \E i \in DOMAIN CandCalls : CandCalls[i] = calls[1]
    /\ \E i \in DOMAIN CandCalls : CandCalls[i].fn = "download_direct"

(***************************************************************************)
(* Vocabulary of the extractor properties                                  *)
(***************************************************************************)
\* extract_video_urls has just returned video_urls
Extracted == Len(calls) >= 1 /\ calls[Len(calls)].fn = "extract_video_urls"

Urls(q) == {q[i][2] : i \in DOMAIN q}

\* rank of the extraction method that produces a source-kind tag
MethodRank(tag) ==
    CASE tag \in {"video_element", "video_source"} -> 1
      [] tag = "iframe_embed" -> 2
      [] tag = "wistia" -> 3
      [] tag = "vimeo" -> 4
      [] tag = "youtube" -> 5
      [] tag = "direct_file" -> 6

\* position of the first entry of q with URL u
FirstPos(q, u) == Min({i \in DOMAIN q : q[i][2] = u})

\* the URLs the generic file-URL pattern yields on the page
FileUrls == {Unescape(m) : m \in Range(FileFindFrom(Raw(html), 1))}

\* the video elements whose src resolves to u
VideoSrcNodes(u) ==
    {k \in DOMAIN html : /\ html[k].tag = "video"
                         /\ html[k].src # ""
                         /\ urljoin(url, html[k].src) = u}

\* a <source> nested in a video element before node k resolves to u
EarlierSource(k, u) ==
    \E m \in 1..(k - 1) :
        /\ html[m].tag = "video"
        /\ \E x \in DOMAIN html[m].sources :
               html[m].sources[x] # "" /\ urljoin(url, html[m].sources[x]) = u

C4_NoDuplicateUrl ==
    \A i, j \in DOMAIN video_urls : i # j => video_urls[i][2] # video_urls[j][2]

\* every discovered URL is listed, at the place and with the tag of its
\* first discovery, and the entries follow the method order
C4_FirstDiscovery ==
    \A comb \in {Combined(html, url, hashSeed)} :
        \A first \in {[i \in DOMAIN video_urls |-> FirstPos(comb, video_urls[i][2])]} :
            /\ Urls(video_urls) = Urls(comb)
            /\ \A i \in DOMAIN video_urls : video_urls[i] = comb[first[i]]
            /\ \A i \in 1..(Len(video_urls) - 1) :
                   /\ first[i] < first[i + 1]
                   /\ MethodRank(video_urls[i][1]) <= MethodRank(video_urls[i + 1][1])

C4_VideoBeforeWistia ==
    \A i, j \in DOMAIN video_urls :
        video_urls[i][1] = "video_element" /\ video_urls[j][1] = "wistia" => i < j

(***************************************************************************)
(* C4 (as stated): the returned list has no two entries with the same URL; *)
(* each URL appears once, at the position and with the tag of its first    *)
(* discovery in the method order; a <video src> candidate precedes a       *)
(* Wistia candidate; a URL found both by a <video> element and by the      *)
(* generic file-URL pattern is tagged video_element.                       *)
(***************************************************************************)
C4_DedupTagVideoElement ==
    Extracted =>
        /\ C4_NoDuplicateUrl
        /\ C4_FirstDiscovery
        /\ C4_VideoBeforeWistia
        /\ \A found \in {FileUrls} :
               \A u \in found :
                   VideoSrcNodes(u) # {} =>
                       \E i \in DOMAIN video_urls : video_urls[i] = <<"video_element", u>>

(***************************************************************************)
(* C4 (amended): as stated, except that a URL found both by a <video>      *)
(* element's src and by the generic file-URL pattern is tagged             *)
(* video_element unless a <source> nested in an earlier <video> element    *)
(* carries the same URL, in which case it is tagged video_source.          *)
(***************************************************************************)
C4_DedupTagFirstDiscovery ==
    Extracted =>
        /\ C4_NoDuplicateUrl
        /\ C4_FirstDiscovery
        /\ C4_VideoBeforeWistia
        /\ \A found \in {FileUrls} :
               \A u \in found :
                   VideoSrcNodes(u) # {} =>
                       \E i \in DOMAIN video_urls :
                           video_urls[i] =
                               << IF EarlierSource(Min(VideoSrcNodes(u)), u)
                                  THEN "video_source" ELSE "video_element", u >>

C4_Witness ==
    /\ Extracted
    /\ \E u \in FileUrls :
           /\ VideoSrcNodes(u) # {}
           /\ video_urls[1] = <<"video_element", u>>
    /\ \E j \in DOMAIN video_urls : video_urls[j][1] = "wistia"
    /\ Len(video_urls) < Len(Combined(html, url, hashSeed))

(***************************************************************************)
(* C5: for a fixed page and base URL extract_video_urls returns the same   *)
(* candidate list, in the same order, on every call, also when a pattern   *)
(* matches several identifiers or several file URLs are present.           *)
(***************************************************************************)
C5_SameListOnEveryCall == ncalls >= 2 => video_urls = prev_urls

(***************************************************************************)
(* Vocabulary of the classifier properties                                 *)
(***************************************************************************)
KnownExtensions == {".mp4", ".webm", ".m3u8", ".mov", ".avi", ".mkv", ".flv"}

\* the host names as the specification lists them
NamedHosts ==
    {"wistia", "vimeo", "youtube", "youtu.be", "vidyard", "brightcove",
     "jwplatform", "loom", "sproutvideo"}

\* the host fragments the classifier looks for
HostFragments ==
    {"wistia.com", "wistia.net", "vimeo.com", "youtube.com", "youtu.be",
     "vidyard.com", "brightcove", "jwplatform", "loom.com", "sproutvideo"}

(***************************************************************************)
(* C6 (as stated): is_direct_video_url is true for every URL whose         *)
(* lowercased form contains a known extension or one of the host fragments *)
(* wistia, vimeo, youtube / youtu.be, vidyard, brightcove, jwplatform,     *)
(* loom, sproutvideo, and false for every URL containing none of them.     *)
(***************************************************************************)
C6_ClassifierByHostName ==
    pc = "classified" =>
        (ret <=> \E f \in KnownExtensions \cup NamedHosts : ContainsCI(url, f))

(***************************************************************************)
(* C6 (amended): is_direct_video_url is true for every URL whose           *)
(* lowercased form contains a known extension or one of the host fragments *)
(* wistia.com, wistia.net, vimeo.com, youtube.com, youtu.be, vidyard.com,  *)
(* brightcove, jwplatform, loom.com, sproutvideo, and false for every URL  *)
(* containing none of them.                                                *)
(***************************************************************************)
C6_ClassifierByHostFragment ==
    pc = "classified" =>
        (ret <=> \E f \in KnownExtensions \cup HostFragments : ContainsCI(url, f))

C6_Witness ==
    /\ pc = "classified"
    /\ ret
    /\ ContainsCI(url, "loom.com")
    /\ ~Contains(url, "loom.com")

====
